---- MODULE Spec2Model ----
(***************************************************************************)
(* Model of bspheres (src/src/bspheres/__init__.py) and of the earlier     *)
(* variant src/src/test.py: Simulation.run, place_objects_randomly,        *)
(* _location_overlaps, PhysicsSphere.set_initial_velocity, render_frames.  *)
(*                                                                         *)
(* Numbers.  The program computes on floats; the model computes on an      *)
(* integer grid.  Lengths are in grid units, time in ticks (one tick is    *)
(* the default time_step, 1/24 s) and velocities in grid units per tick,   *)
(* so that location - time * velocity is computed exactly.  A radius drawn *)
(* by random.uniform over [a, b] is one of the grid points a..b; a         *)
(* coordinate drawn over [-arena_size/2, +arena_size/2] is one of the two  *)
(* ends or the middle of that range.                                       *)
(*                                                                         *)
(* Randomness.  Under Spec a draw of the random module may return any      *)
(* value of its range (the generator's state is not tracked).  Under       *)
(* SpecSeeded the generator is a deterministic machine: random.seed sets   *)
(* its state and every draw advances it.                                   *)
(***************************************************************************)
EXTENDS Integers, Sequences, FiniteSets, TLC

(* ---------------------------- bounds ----------------------------------- *)
MaxCount == 2        \* sphere_count ranges over 0..MaxCount
MaxFrames == 2       \* frame_count ranges over 0..MaxFrames
MaxRejected == 2     \* the count of rejected candidates saturates here
MaxRuns == 2         \* calls of Simulation.run in one session (SpecSeeded)
RngMod == 31         \* number of states of the generator (SpecSeeded)
MaxDt == 1           \* time_step ranges over 0..MaxDt (SpecBody)

(* ---------------------------- inputs ----------------------------------- *)
ArenaSizes == {4}                       \* values of arena_size
RadiusRanges == {<<2, 3>>}              \* values of radius_range
initial_velocities == <<-1, 1>>         \* the tuple passed as initial_velocities
BodyCoords == -1 .. 1                   \* coordinates and speeds of SpecBody
DefaultTimeStep == 1                    \* time_step=1.0/24.0, one tick
DefaultSeed == 1                        \* random_seed=1
DefaultGravity == <<0, 0, -981>>        \* the host's gravity before run, cgs

VARIABLES
    pc,             \* position in Simulation.run
    sim,            \* the Simulation object's fields
    objects,        \* bpy.data.objects, in creation order
    materials,      \* bpy.data.materials, in creation order
    camera,         \* bpy.context.scene.camera
    gravity,        \* scene.gravity
    rng,            \* state of the random module's generator
    seeded,         \* argument of the last random.seed call of this run, -1 if none
    time_step,      \* place_objects_randomly's time_step
    o,              \* loop variable of place_objects_randomly
    radius,         \* local radius (0: unbound)
    location,       \* local location (<<>>: unbound)
    v_i,            \* local v_i (<<>>: unbound)
    all_items,      \* local all_items
    rejected,       \* rejected candidates of this run, saturating at MaxRejected
    vels,           \* the v_i of every placed sphere of this run, in order
    frame_count,    \* render_frames' count (run's frame_count), 0 before the call
    frame_end,      \* scene.frame_end
    frame_current,  \* scene.frame_current
    f,              \* loop variable of render_frames
    frames_set,     \* arguments of the scene.frame_set calls of this run, in order
    images,         \* stills written in this run: [number, frame], in order
    runs,           \* calls of Simulation.run so far
    prev            \* what the previous run drew: <<>> or <<[items, vels, rejected]>>

vars == <<pc, sim, objects, materials, camera, gravity, rng, seeded, time_step,
          o, radius, location, v_i, all_items, rejected, vels,
          frame_count, frame_end, frame_current, f, frames_set, images,
          runs, prev>>

placeVars == <<o, radius, location, v_i, all_items, rejected, vels>>
renderVars == <<frame_count, frame_end, frame_current, f, frames_set, images>>
sessionVars == <<sim, time_step, runs, prev>>

(* ---------------------------- helpers ---------------------------------- *)
Min(a, b) == IF a < b THEN a ELSE b

\* dv = [a-b for a, b in zip(loc, location)], d2 = sum([dx*dx for dx in dv]);
\* a location has three components
Dist2(loc, loc2) ==
    (loc[1] - loc2[1]) * (loc[1] - loc2[1])
    + (loc[2] - loc2[2]) * (loc[2] - loc2[2])
    + (loc[3] - loc2[3]) * (loc[3] - loc2[3])

\* the values random.uniform(a, b) can return, as a sequence
UniformValues(a, b) == [k \in 1 .. (b - a + 1) |-> a + k - 1]

\* random.uniform(-arena_size, +arena_size): the halving is left out
CoordsWholeSide(arena_size) == <<-arena_size, 0, arena_size>>

\* the candidates of random.uniform(-arena_size/2.0, +arena_size/2.0)
Coords(arena_size) == <<-(arena_size \div 2), 0, arena_size \div 2>>

Range(s) == {s[k] : k \in DOMAIN s}

(* ------------------------ the random module ---------------------------- *)
\* random.seed left out: the generator stays in the state it is in
SeedIgnored(a) == rng

\* random.seed(a): the generator's state is a function of a alone
SeedState(a) == a % RngMod

\* one step of the generator
Step(s) == (3 * s + 5) % RngMod

\* the value a draw over the candidates D returns in generator state s
Pick(s, D) == D[(s % Len(D)) + 1]

(* ------------------------ _location_overlaps --------------------------- *)
\* _location_overlaps with min_d2 = radius ** 2: the other circle's radius is
\* left out of the minimum distance
RECURSIVE OverlapsOwnRadiusOnly(_, _, _)
OverlapsOwnRadiusOnly(loc, rad, items) ==
    IF items = <<>> THEN FALSE
    ELSE LET it == Head(items)
             min_d2 == rad * rad
             d2 == Dist2(it.location, loc)
         IN  IF d2 < min_d2 THEN TRUE
             ELSE OverlapsOwnRadiusOnly(loc, rad, Tail(items))

RECURSIVE _location_overlaps(_, _, _)
_location_overlaps(loc, rad, items) ==
    IF items = <<>> THEN FALSE
    ELSE LET it == Head(items)
             min_d2 == (rad + it.radius) * (rad + it.radius)
             d2 == Dist2(it.location, loc)
         IN  IF d2 < min_d2 THEN TRUE
             ELSE _location_overlaps(loc, rad, Tail(items))

(* --------------------------- PhysicsSphere ----------------------------- *)
\* an object of bpy.data.objects that this program did not create
HostObject(type, name, loc) ==
    [type |-> type, name |-> name, location |-> loc, size |-> 0,
     material |-> <<>>, has_rigid_body |-> FALSE, kinematic |-> FALSE,
     collision_shape |-> "NONE", keyframes |-> <<>>]

\* PhysicsSphere.__init__: an ico sphere at location with a rigid body
\* (mass = density * 4/3 * pi * radius**3 is not modelled: nothing reads it)
PhysicsSphere(material, rad, loc) ==
    [type |-> "MESH", name |-> "Icosphere", location |-> loc, size |-> rad,
     material |-> material, has_rigid_body |-> TRUE, kinematic |-> FALSE,
     collision_shape |-> "SPHERE", keyframes |-> <<>>]

\* ob.keyframe_insert(data_path, frame): records the property's current value
\* (the flag as 1 or 0, as an animation curve stores it)
KeyframeInsert(ob, data_path, frame) ==
    LET value == IF data_path = "location" THEN ob.location
                 ELSE <<IF ob.kinematic THEN 1 ELSE 0>>
    IN  [ob EXCEPT !.keyframes =
            Append(@, [data_path |-> data_path, frame |-> frame, value |-> value])]

_compute_initial_location(ob, initial_velocity, time) ==
    IF time = 0 THEN ob.location
    ELSE [x \in 1 .. 3 |-> ob.location[x] - time * initial_velocity[x]]

\* set_initial_velocity reading loc1 after ob.object.location = loc0
SetVelocityLateCopy(ob, velocity, time) ==
    LET loc0 == _compute_initial_location(ob, velocity, time)
        s1 == [ob EXCEPT !.kinematic = TRUE]
        s2 == [s1 EXCEPT !.location = loc0]
        loc1 == s2.location
        s3 == KeyframeInsert(s2, "rigid_body.kinematic", 1)
        s4 == KeyframeInsert(s3, "location", 1)
        s5 == [s4 EXCEPT !.location = loc1]
        s6 == KeyframeInsert(s5, "location", 2)
        s7 == [s6 EXCEPT !.kinematic = FALSE]
    IN  KeyframeInsert(s7, "rigid_body.kinematic", 3)

\* set_initial_velocity releasing the body with the second location keyframe
SetVelocityReleaseAtTwo(ob, velocity, time) ==
    LET loc0 == _compute_initial_location(ob, velocity, time)
        loc1 == ob.location
        s1 == [ob EXCEPT !.kinematic = TRUE]
        s2 == [s1 EXCEPT !.location = loc0]
        s3 == KeyframeInsert(s2, "rigid_body.kinematic", 1)
        s4 == KeyframeInsert(s3, "location", 1)
        s5 == [s4 EXCEPT !.location = loc1]
        s6 == KeyframeInsert(s5, "location", 2)
        s7 == [s6 EXCEPT !.kinematic = FALSE]
    IN  KeyframeInsert(s7, "rigid_body.kinematic", 2)

set_initial_velocity(ob, velocity, time) ==
    LET loc0 == _compute_initial_location(ob, velocity, time)
        loc1 == ob.location
        s1 == [ob EXCEPT !.kinematic = TRUE]
        s2 == [s1 EXCEPT !.location = loc0]
        s3 == KeyframeInsert(s2, "rigid_body.kinematic", 1)
        s4 == KeyframeInsert(s3, "location", 1)
        s5 == [s4 EXCEPT !.location = loc1]
        s6 == KeyframeInsert(s5, "location", 2)
        s7 == [s6 EXCEPT !.kinematic = FALSE]
    IN  KeyframeInsert(s7, "rigid_body.kinematic", 3)

\* create_shadeless_material(intensity): the grey level, as <<num, den>>
create_shadeless_material(num, den) ==
    [name |-> "SurfaceMat", use_shadeless |-> TRUE, intensity |-> <<num, den>>]

\* what delete_all_meshes leaves of bpy.data.objects
RECURSIVE NonMeshes(_)
NonMeshes(objs) ==
    IF objs = <<>> THEN <<>>
    ELSE IF Head(objs).type = "MESH" THEN NonMeshes(Tail(objs))
         ELSE <<Head(objs)>> \o NonMeshes(Tail(objs))

\* the scene a session starts with: the default cube, camera and lamp
DefaultObjects ==
    << HostObject("MESH", "Cube", <<0, 0, 0>>),
       HostObject("CAMERA", "Camera", <<7, -7, 5>>),
       HostObject("LAMP", "Lamp", <<4, 1, 6>>) >>

DefaultCamera == [rotation_euler |-> <<1, 0, 1>>, location |-> <<7, -7, 5>>,
                  type |-> "PERSP", ortho_scale |-> 7]

(* ------------------------------ Init ----------------------------------- *)
\* the state a session is in when Simulation(...) has been constructed
Session(seeds, rngs) ==
    /\ pc = "start"
    /\ sim \in [random_seed : seeds, sphere_count : 0 .. MaxCount,
                arena_size : ArenaSizes, radius_range : RadiusRanges]
    /\ objects = DefaultObjects
    /\ materials = <<>>
    /\ camera = DefaultCamera
    /\ gravity = DefaultGravity
    /\ rng \in rngs
    /\ seeded = -1
    /\ time_step = DefaultTimeStep
    /\ o = 0 /\ radius = 0 /\ location = <<>> /\ v_i = <<>>
    /\ all_items = <<>> /\ rejected = 0 /\ vels = <<>>
    /\ frame_count = 0
    /\ frame_end = 250 /\ frame_current = 1 /\ f = 0
    /\ frames_set = <<>> /\ images = <<>>
    /\ runs = 1 /\ prev = <<>>

Init == Session({DefaultSeed}, {0})

(* -------------------------- Simulation.run ----------------------------- *)
delete_all_meshes ==
    /\ pc = "start"
    /\ objects' = NonMeshes(objects)
    /\ pc' = "camera"
    /\ UNCHANGED <<materials, camera, gravity, rng, seeded>>
    /\ UNCHANGED <<placeVars, renderVars, sessionVars>>

set_camera_to_top_down_view ==
    /\ pc = "camera"
    /\ camera' = [rotation_euler |-> <<0, 0, 0>>, location |-> <<0, 0, 10>>,
                  type |-> "ORTHO", ortho_scale |-> sim.arena_size]
    /\ pc' = "gravity"
    /\ UNCHANGED <<objects, materials, gravity, rng, seeded>>
    /\ UNCHANGED <<placeVars, renderVars, sessionVars>>

SetGravity ==
    /\ pc = "gravity"
    /\ gravity' = <<0, 0, 0>>
    /\ pc' = "seed"
    /\ UNCHANGED <<objects, materials, camera, rng, seeded>>
    /\ UNCHANGED <<placeVars, renderVars, sessionVars>>

RandomSeed ==
    /\ pc = "seed"
    /\ rng' = SeedState(sim.random_seed)
    /\ seeded' = sim.random_seed
    /\ pc' = "place"
    /\ UNCHANGED <<objects, materials, camera, gravity>>
    /\ UNCHANGED <<placeVars, renderVars, sessionVars>>

(* ---------------------- place_objects_randomly ------------------------- *)
\* all_items = [] and the start of the for loop
PlaceBegin ==
    /\ pc = "place"
    /\ all_items' = <<>>
    /\ o' = 0
    /\ pc' = "for"
    /\ UNCHANGED <<objects, materials, camera, gravity, rng, seeded>>
    /\ UNCHANGED <<radius, location, v_i, rejected, vels>>
    /\ UNCHANGED <<renderVars, sessionVars>>

\* the material and radius = random.uniform(radius_range[0], radius_range[1])
DrawRadius(r, g) ==
    /\ pc = "for"
    /\ o < sim.sphere_count
    /\ materials' = Append(materials,
            create_shadeless_material(10 * sim.sphere_count - 8 * o,
                                      10 * sim.sphere_count))
    /\ radius' = r
    /\ rng' = g
    /\ pc' = "loc"
    /\ UNCHANGED <<objects, camera, gravity, seeded>>
    /\ UNCHANGED <<o, location, v_i, all_items, rejected, vels>>
    /\ UNCHANGED <<renderVars, sessionVars>>

\* the first location = [uniform, uniform] + [0]
DrawLocation(x, y, g) ==
    /\ pc = "loc"
    /\ location' = <<x, y, 0>>
    /\ rng' = g
    /\ pc' = "while"
    /\ UNCHANGED <<objects, materials, camera, gravity, seeded>>
    /\ UNCHANGED <<o, radius, v_i, all_items, rejected, vels>>
    /\ UNCHANGED <<renderVars, sessionVars>>

\* a loop body that draws the radius again with the position
ResampleRadiusToo(x, y, g) ==
    /\ pc = "while"
    /\ _location_overlaps(location, radius, all_items)
    /\ location' = <<x, y, 0>>
    /\ radius' = sim.radius_range[1] + sim.radius_range[2] - radius
    /\ rng' = g
    /\ rejected' = Min(rejected + 1, MaxRejected)
    /\ pc' = "while"
    /\ UNCHANGED <<objects, materials, camera, gravity, seeded>>
    /\ UNCHANGED <<o, v_i, all_items, vels>>
    /\ UNCHANGED <<renderVars, sessionVars>>

\* a loop body that creates the sphere of the candidate it is about to replace
ResampleCreatesSphere(x, y, g) ==
    /\ pc = "while"
    /\ _location_overlaps(location, radius, all_items)
    /\ objects' = Append(objects,
            PhysicsSphere(materials[Len(materials)], radius, location))
    /\ location' = <<x, y, 0>>
    /\ rng' = g
    /\ rejected' = Min(rejected + 1, MaxRejected)
    /\ pc' = "while"
    /\ UNCHANGED <<materials, camera, gravity, seeded>>
    /\ UNCHANGED <<o, radius, v_i, all_items, vels>>
    /\ UNCHANGED <<renderVars, sessionVars>>

\* the body of while (_location_overlaps(location, radius, all_items))
Resample(x, y, g) ==
    /\ pc = "while"
    /\ _location_overlaps(location, radius, all_items)
    /\ location' = <<x, y, 0>>
    /\ rng' = g
    /\ rejected' = Min(rejected + 1, MaxRejected)
    /\ pc' = "while"
    /\ UNCHANGED <<objects, materials, camera, gravity, seeded>>
    /\ UNCHANGED <<o, radius, v_i, all_items, vels>>
    /\ UNCHANGED <<renderVars, sessionVars>>

\* a loop that gives up after MaxRejected rejected candidates
CreateSphereGiveUp ==
    /\ pc = "while"
    /\ \/ ~ _location_overlaps(location, radius, all_items)
       \/ rejected >= MaxRejected
    /\ objects' = Append(objects,
            PhysicsSphere(materials[Len(materials)], radius, location))
    /\ pc' = "vel"
    /\ UNCHANGED <<materials, camera, gravity, rng, seeded>>
    /\ UNCHANGED <<placeVars, renderVars, sessionVars>>

\* PhysicsSphere(radius=radius, material=mat): the location argument is left
\* out and the sphere is created at the default location [0,0,0]
CreateSphereAtOrigin ==
    /\ pc = "while"
    /\ ~ _location_overlaps(location, radius, all_items)
    /\ objects' = Append(objects,
            PhysicsSphere(materials[Len(materials)], radius, <<0, 0, 0>>))
    /\ pc' = "vel"
    /\ UNCHANGED <<materials, camera, gravity, rng, seeded>>
    /\ UNCHANGED <<placeVars, renderVars, sessionVars>>

\* the loop is left: obj = PhysicsSphere(radius, mat, location)
CreateSphere ==
    /\ pc = "while"
    /\ ~ _location_overlaps(location, radius, all_items)
    /\ objects' = Append(objects,
            PhysicsSphere(materials[Len(materials)], radius, location))
    /\ pc' = "vel"
    /\ UNCHANGED <<materials, camera, gravity, rng, seeded>>
    /\ UNCHANGED <<placeVars, renderVars, sessionVars>>

\* v_i, obj.set_initial_velocity(v_i, time_step), all_items.append
Launch(vx, vy, g) ==
    /\ pc = "vel"
    /\ v_i' = <<vx, vy, 0>>
    /\ rng' = g
    /\ objects' = [objects EXCEPT ![Len(objects)] =
                        set_initial_velocity(@, <<vx, vy, 0>>, time_step)]
    /\ all_items' = Append(all_items, [location |-> location, radius |-> radius])
    /\ vels' = Append(vels, <<vx, vy, 0>>)
    /\ o' = o + 1
    /\ pc' = "for"
    /\ UNCHANGED <<materials, camera, gravity, seeded>>
    /\ UNCHANGED <<radius, location, rejected>>
    /\ UNCHANGED <<renderVars, sessionVars>>

\* a for loop that ends one object early
PlaceEndEarly ==
    /\ pc = "for"
    /\ o + 1 >= sim.sphere_count
    /\ pc' = "render"
    /\ UNCHANGED <<objects, materials, camera, gravity, rng, seeded>>
    /\ UNCHANGED <<placeVars, renderVars, sessionVars>>

\* range(count) is exhausted
PlaceEnd ==
    /\ pc = "for"
    /\ o >= sim.sphere_count
    /\ pc' = "render"
    /\ UNCHANGED <<objects, materials, camera, gravity, rng, seeded>>
    /\ UNCHANGED <<placeVars, renderVars, sessionVars>>

(* --------------------------- render_frames ----------------------------- *)
\* the settings, scene.frame_start = 1, scene.frame_end = count + 1
RenderBegin(count) ==
    /\ pc = "render"
    /\ frame_count' = count
    /\ frame_end' = count + 1
    /\ f' = 1
    /\ pc' = "frame"
    /\ UNCHANGED <<objects, materials, camera, gravity, rng, seeded>>
    /\ UNCHANGED <<frame_current, frames_set, images>>
    /\ UNCHANGED <<placeVars, sessionVars>>

\* scene.frame_set(f), and the continue of the first frame
FrameSet ==
    /\ pc = "frame"
    /\ f <= frame_end
    /\ frame_current' = f
    /\ frames_set' = Append(frames_set, f)
    /\ IF f <= 1 THEN f' = f + 1 /\ pc' = "frame"
                 ELSE f' = f /\ pc' = "write"
    /\ UNCHANGED <<objects, materials, camera, gravity, rng, seeded>>
    /\ UNCHANGED <<frame_count, frame_end, images>>
    /\ UNCHANGED <<placeVars, sessionVars>>

\* a still named after the scene frame: frame_%04d % f
WriteStillNumberF ==
    /\ pc = "write"
    /\ images' = Append(images, [number |-> f, frame |-> frame_current])
    /\ f' = f + 1
    /\ pc' = "frame"
    /\ UNCHANGED <<objects, materials, camera, gravity, rng, seeded>>
    /\ UNCHANGED <<frame_count, frame_end, frame_current, frames_set>>
    /\ UNCHANGED <<placeVars, sessionVars>>

\* filepath = frame_%04d % (f - 1) and render(write_still=True)
WriteStill ==
    /\ pc = "write"
    /\ images' = Append(images, [number |-> f - 1, frame |-> frame_current])
    /\ f' = f + 1
    /\ pc' = "frame"
    /\ UNCHANGED <<objects, materials, camera, gravity, rng, seeded>>
    /\ UNCHANGED <<frame_count, frame_end, frame_current, frames_set>>
    /\ UNCHANGED <<placeVars, sessionVars>>

\* range(1, scene.frame_end + 1) is exhausted
RenderEnd ==
    /\ pc = "frame"
    /\ f > frame_end
    /\ pc' = "done"
    /\ UNCHANGED <<objects, materials, camera, gravity, rng, seeded>>
    /\ UNCHANGED <<placeVars, renderVars, sessionVars>>

\* the steps that draw nothing
Steps ==
    \/ delete_all_meshes
    \/ set_camera_to_top_down_view
    \/ SetGravity
    \/ RandomSeed
    \/ PlaceBegin
    \/ CreateSphere
    \/ PlaceEnd
    \/ \E count \in 0 .. MaxFrames : RenderBegin(count)
    \/ FrameSet
    \/ WriteStill
    \/ RenderEnd

(* ------------- Spec: a draw returns any value of its range ------------- *)
AnyRadius ==
    \E r \in Range(UniformValues(sim.radius_range[1], sim.radius_range[2])) :
        DrawRadius(r, rng)

AnyLocation ==
    \E x, y \in Range(Coords(sim.arena_size)) : DrawLocation(x, y, rng)

AnyResample ==
    \E x, y \in Range(Coords(sim.arena_size)) : Resample(x, y, rng)

AnyLaunch ==
    \E vx, vy \in Range(initial_velocities) : Launch(vx, vy, rng)

Next ==
    \/ Steps
    \/ AnyRadius
    \/ AnyLocation
    \/ AnyResample
    \/ AnyLaunch

Spec == Init /\ [][Next]_vars

(* ------- SpecSeeded: the draws are those of a seeded generator --------- *)
SeededRadius ==
    LET s1 == Step(rng)
    IN  DrawRadius(Pick(s1, UniformValues(sim.radius_range[1], sim.radius_range[2])), s1)

SeededLocation ==
    LET s1 == Step(rng)
        s2 == Step(s1)
    IN  DrawLocation(Pick(s1, Coords(sim.arena_size)), Pick(s2, Coords(sim.arena_size)), s2)

SeededResample ==
    LET s1 == Step(rng)
        s2 == Step(s1)
    IN  Resample(Pick(s1, Coords(sim.arena_size)), Pick(s2, Coords(sim.arena_size)), s2)

SeededLaunch ==
    LET s1 == Step(rng)
        s2 == Step(s1)
    IN  Launch(Pick(s1, initial_velocities), Pick(s2, initial_velocities), s2)

\* sim.run(...) is called again in the same session: the scene, the materials
\* and the generator are as the previous run left them; what the previous
\* run drew is kept in prev
Rerun ==
    /\ pc = "done"
    /\ runs < MaxRuns
    /\ prev' = <<[items |-> all_items, vels |-> vels, rejected |-> rejected]>>
    /\ runs' = runs + 1
    /\ pc' = "start"
    /\ seeded' = -1
    /\ o' = 0 /\ radius' = 0 /\ location' = <<>> /\ v_i' = <<>>
    /\ all_items' = <<>> /\ rejected' = 0 /\ vels' = <<>>
    /\ frame_count' = 0 /\ f' = 0
    /\ frames_set' = <<>> /\ images' = <<>>
    /\ UNCHANGED <<sim, objects, materials, camera, gravity, rng, time_step>>
    /\ UNCHANGED <<frame_end, frame_current>>

InitSeeded == Session(0 .. RngMod - 1, 0 .. RngMod - 1)

NextSeeded ==
    \/ Steps
    \/ SeededRadius
    \/ SeededLocation
    \/ SeededResample
    \/ SeededLaunch
    \/ Rerun

SpecSeeded == InitSeeded /\ [][NextSeeded]_vars

(* ------- SpecBody: set_initial_velocity on one body, any inputs -------- *)
Vectors == {<<x, y, z>> : x \in BodyCoords, y \in BodyCoords, z \in BodyCoords}

\* a session holding one PhysicsSphere at location L, before the call
InitBody ==
    /\ pc = "body"
    /\ sim = [random_seed |-> DefaultSeed, sphere_count |-> 1,
              arena_size |-> 4, radius_range |-> <<2, 2>>]
    /\ materials = <<create_shadeless_material(1, 2)>>
    /\ \E L \in Vectors : objects = <<PhysicsSphere(materials[1], 2, L)>>
    /\ camera = DefaultCamera
    /\ gravity = DefaultGravity
    /\ rng = 0
    /\ seeded = -1
    /\ time_step \in 0 .. MaxDt
    /\ o = 0 /\ radius = 0 /\ location = <<>> /\ v_i = <<>>
    /\ all_items = <<>> /\ rejected = 0 /\ vels = <<>>
    /\ frame_count = 0
    /\ frame_end = 250 /\ frame_current = 1 /\ f = 0
    /\ frames_set = <<>> /\ images = <<>>
    /\ runs = 1 /\ prev = <<>>

\* ob.set_initial_velocity(velocity, time_step)
BodyVelocity(velocity) ==
    /\ pc = "body"
    /\ v_i' = velocity
    /\ location' = objects[1].location
    /\ objects' = <<set_initial_velocity(objects[1], velocity, time_step)>>
    /\ pc' = "body_done"
    /\ UNCHANGED <<materials, camera, gravity, rng, seeded>>
    /\ UNCHANGED <<o, radius, all_items, rejected, vels>>
    /\ UNCHANGED <<renderVars, sessionVars>>

NextBody == \E velocity \in Vectors : BodyVelocity(velocity)

SpecBody == InitBody /\ [][NextBody]_vars

(* ======================================================================= *)
(*                               properties                                *)
(* ======================================================================= *)
\* the spheres this program created, in creation order
IsSphere(ob) == ob.has_rigid_body
Spheres == SelectSeq(objects, IsSphere)

IsLocationKey(k) == k.data_path = "location"
IsKinematicKey(k) == k.data_path = "rigid_body.kinematic"
LocationKeys(ob) == SelectSeq(ob.keyframes, IsLocationKey)
KinematicKeys(ob) == SelectSeq(ob.keyframes, IsKinematicKey)

Sq(n) == n * n

\* the circles placed so far, and the accepted candidate while its sphere is
\* being created
Placed ==
    IF pc = "vel" THEN Append(all_items, [location |-> location, radius |-> radius])
    ELSE all_items

(* C1, as stated: every two placed circles are strictly further apart than  *)
(* the sum of their radii (squared distance > squared sum of radii).        *)
C1_StrictlyApart ==
    \A i, j \in DOMAIN Placed :
        i < j => Dist2(Placed[i].location, Placed[j].location)
                    > Sq(Placed[i].radius + Placed[j].radius)

(* C1, amended: every two placed circles are at least the sum of their      *)
(* radii apart; a candidate at exactly that distance (touching circles) is  *)
(* accepted.                                                                *)
C1_NotOverlapping ==
    \A i, j \in DOMAIN Placed :
        i < j => Dist2(Placed[i].location, Placed[j].location)
                    >= Sq(Placed[i].radius + Placed[j].radius)

\* two circles placed at exactly the sum of their radii, after a rejection
C1_Witness ==
    /\ pc = "for"
    /\ Len(all_items) = 2
    /\ rejected > 0
    /\ Dist2(all_items[1].location, all_items[2].location)
            = Sq(all_items[1].radius + all_items[2].radius)

(* C2: set_initial_velocity(v, dt) on a body at L records exactly two       *)
(* location keyframes, first the one at frame 1 with value L - dt * v       *)
(* (component-wise), then the one at frame 2 with value L, the location     *)
(* before the call; for dt = 0 both values are L.  (SpecBody keeps L in     *)
(* location, v in v_i and dt in time_step.)                                 *)
C2_LocationKeyframes ==
    pc = "body_done" =>
        LET keys == LocationKeys(objects[1])
        IN  /\ Len(keys) = 2
            /\ keys[1].frame = 1
            /\ keys[1].value = [x \in 1 .. 3 |-> location[x] - time_step * v_i[x]]
            /\ keys[2].frame = 2
            /\ keys[2].value = location
            /\ time_step = 0 => keys[1].value = location
            /\ objects[1].location = location

\* a call with a time step and a velocity that move the body on every axis
C2_Witness ==
    /\ pc = "body_done"
    /\ time_step = 1
    /\ v_i = <<1, -1, 1>>
    /\ location = <<0, 1, -1>>
    /\ LocationKeys(objects[1])[1].value = <<-1, 2, -2>>

(* C3: set_initial_velocity records the kinematic flag exactly twice, True  *)
(* at frame 1 and then False at frame 3: no keyframe releases the body      *)
(* before frame 3, none makes it kinematic again after frame 1, and the     *)
(* body is left dynamic.                                                    *)
C3_KinematicKeyframes ==
    pc = "body_done" =>
        LET keys == KinematicKeys(objects[1])
        IN  /\ Len(keys) = 2
            /\ keys[1].frame = 1 /\ keys[1].value = <<1>>
            /\ keys[2].frame = 3 /\ keys[2].value = <<0>>
            /\ \A k \in DOMAIN keys :
                    /\ keys[k].value = <<0>> => keys[k].frame >= 3
                    /\ keys[k].value = <<1>> => keys[k].frame <= 1
            /\ Len(objects[1].keyframes) = 4
            /\ objects[1].kinematic = FALSE

\* a call on a body that was dynamic and has both flag keyframes afterwards
C3_Witness ==
    /\ pc = "body_done"
    /\ Len(KinematicKeys(objects[1])) = 2
    /\ v_i # <<0, 0, 0>>

\* the loop condition holds: the current candidate overlaps a placed circle
Overlapping == pc = "while" /\ _location_overlaps(location, radius, all_items)

\* every position of the arena overlaps a placed circle
Stuck ==
    /\ pc = "while"
    /\ \A x, y \in Range(Coords(sim.arena_size)) :
            _location_overlaps(<<x, y, 0>>, radius, all_items)

\* a step taken on an overlapping candidate stays in the loop
C4_Step ==
    /\ Overlapping => /\ pc' = "while"
                      /\ o' = o /\ radius' = radius /\ all_items' = all_items
    /\ Stuck => Stuck'

(* C4: the resampling loop has no retry bound and is left only on a         *)
(* candidate that does not overlap.  While the candidate overlaps, another  *)
(* candidate can always be drawn and every step stays in the loop, with the *)
(* same object, radius and placed circles; once every position of the       *)
(* arena overlaps a placed circle, that stays so for ever and the run never *)
(* leaves the loop.                                                         *)
C4_Unbounded == [](Overlapping => ENABLED AnyResample) /\ [][C4_Step]_vars

\* a second object that cannot be placed anywhere, with as many rejected
\* candidates as the count records
C4_Witness == Stuck /\ Len(all_items) = 1 /\ rejected = MaxRejected

\* the radii within radius_range
Radii == sim.radius_range[1] .. sim.radius_range[2]

\* the radii in use are within range and are the sizes of the spheres
C5_State ==
    /\ pc \in {"loc", "while", "vel"} => radius \in Radii
    /\ \A i \in DOMAIN all_items :
            /\ all_items[i].radius \in Radii
            /\ all_items[i].radius = Spheres[i].size
    /\ pc = "vel" => Spheres[Len(Spheres)].size = radius

\* which steps assign radius, location and all_items
C5_Step ==
    /\ radius' # radius => pc = "for" /\ pc' = "loc"
    /\ (pc = "for" /\ pc' = "loc") => location' = location
    /\ location' # location => pc \in {"loc", "while"} /\ radius' = radius
    /\ all_items' # all_items =>
            all_items' = Append(all_items, [location |-> location, radius |-> radius])

(* C5: each object gets one radius, drawn within radius_range in the step   *)
(* before its first candidate position; no other step changes the radius,   *)
(* a resample changes the position only, and the radius recorded in         *)
(* all_items is the size the sphere was created with.                       *)
C5_OneRadius == []C5_State /\ [][C5_Step]_vars

\* a second object of another radius than the first, placed after a
\* rejected candidate
C5_Witness ==
    /\ pc = "for"
    /\ rejected > 0
    /\ Len(all_items) = 2
    /\ all_items[2].radius > all_items[1].radius
    /\ Spheres[2].size = all_items[2].radius

\* a position of the arena, in the plane z = 0
InArena(loc) ==
    /\ Len(loc) = 3
    /\ - sim.arena_size <= 2 * loc[1] /\ 2 * loc[1] <= sim.arena_size
    /\ - sim.arena_size <= 2 * loc[2] /\ 2 * loc[2] <= sim.arena_size
    /\ loc[3] = 0

\* a velocity drawn from initial_velocities, with no z component
IsPlanarVelocity(v) ==
    /\ Len(v) = 3
    /\ v[1] \in Range(initial_velocities)
    /\ v[2] \in Range(initial_velocities)
    /\ v[3] = 0

(* C6: every candidate position and every placed centre has x and y within  *)
(* [-arena_size/2, +arena_size/2] and z = 0; every initial velocity has x   *)
(* and y among initial_velocities and z = 0; both keyframed locations of    *)
(* every sphere have z = 0.                                                 *)
C6_InArenaPlane ==
    /\ location # <<>> => InArena(location)
    /\ \A i \in DOMAIN all_items : InArena(all_items[i].location)
    /\ \A i \in DOMAIN Spheres : InArena(Spheres[i].location)
    /\ v_i # <<>> => IsPlanarVelocity(v_i)
    /\ \A i \in DOMAIN vels : IsPlanarVelocity(vels[i])
    /\ \A i \in DOMAIN Spheres :
            \A k \in DOMAIN LocationKeys(Spheres[i]) :
                LocationKeys(Spheres[i])[k].value[3] = 0

\* two spheres in opposite corners of the arena, the second after a rejected
\* candidate, both keyframed
C6_Witness ==
    /\ pc = "render"
    /\ rejected > 0
    /\ Len(Spheres) = 2
    /\ 2 * Spheres[1].location[1] = sim.arena_size
    /\ 2 * Spheres[2].location[1] = - sim.arena_size
    /\ Len(LocationKeys(Spheres[2])) = 2

(* C7: render_frames(image_folder, count) sets the scene frames 1, 2, ...   *)
(* in increasing order without a gap, count + 1 of them in all; it writes   *)
(* no still of frame 1; the i-th still is numbered i and shows scene frame  *)
(* i + 1, the frame set last before it was written; count stills are        *)
(* written in all.                                                          *)
C7_FramesInOrder ==
    /\ \A i \in DOMAIN frames_set : frames_set[i] = i
    /\ \A i \in DOMAIN images :
            /\ images[i].number = i
            /\ images[i].frame = i + 1
            /\ images[i].frame # 1
            /\ images[i].frame \in Range(frames_set)
    /\ pc = "write" => frame_current = f /\ frames_set[Len(frames_set)] = f
    /\ Len(images) <= frame_count
    /\ pc = "done" => /\ Len(frames_set) = frame_count + 1
                      /\ Len(images) = frame_count
                      /\ frame_current = frame_count + 1

\* a finished rendering of more than one still
C7_Witness ==
    /\ pc = "done"
    /\ frame_count = MaxFrames
    /\ Len(images) = MaxFrames
    /\ images[MaxFrames] = [number |-> MaxFrames, frame |-> MaxFrames + 1]

\* a mesh that was in the scene before the run
IsOldMesh(ob) == ob.type = "MESH" /\ ~ ob.has_rigid_body

(* C8: Simulation.run keeps a fixed order: no mesh of the old scene is left *)
(* when the first material or sphere is created; gravity is zero and the    *)
(* generator has been seeded with random_seed when the first value is       *)
(* drawn; all sphere_count spheres exist, each with its four keyframes,     *)
(* when the first frame is set or rendered.                                 *)
C8_RunOrder ==
    /\ (materials # <<>> \/ Spheres # <<>>) => SelectSeq(objects, IsOldMesh) = <<>>
    /\ (radius # 0 \/ location # <<>> \/ v_i # <<>>) =>
            /\ gravity = <<0, 0, 0>>
            /\ seeded = sim.random_seed
            /\ camera.ortho_scale = sim.arena_size
    /\ (pc \in {"frame", "write", "done"} \/ frames_set # <<>> \/ images # <<>>) =>
            /\ Len(Spheres) = sim.sphere_count
            /\ \A i \in DOMAIN Spheres : Len(Spheres[i].keyframes) = 4
            /\ gravity = <<0, 0, 0>>

\* a finished run of two spheres and at least one still
C8_Witness ==
    /\ pc = "done"
    /\ sim.sphere_count = 2
    /\ Len(Spheres) = 2
    /\ images # <<>>
    /\ Len(objects) = 4

(* C9: a run repeated in the same session with the same Simulation fields   *)
(* draws the same radii, accepts the same positions, draws the same initial *)
(* velocities and rejects as many candidates as the run before it, whatever *)
(* state the generator was in before either run.                            *)
C9_SameDraws ==
    (pc = "done" /\ prev # <<>>) =>
        /\ prev[1].items = all_items
        /\ prev[1].vels = vels
        /\ prev[1].rejected = rejected

\* a second run that placed two spheres after a rejected candidate
C9_Witness ==
    /\ pc = "done"
    /\ runs = 2
    /\ prev # <<>>
    /\ Len(all_items) = 2
    /\ rejected > 0

(* C10: a rejected candidate creates no object.  Outside the two steps that *)
(* create and record a sphere, the spheres are as many as the entries of    *)
(* all_items and the i-th sphere has the i-th entry's location and radius;  *)
(* between the two steps there is one sphere more, at the accepted          *)
(* position; once the loop has ended there are sphere_count spheres.        *)
C10_SpheresAreItems ==
    /\ pc # "vel" => Len(Spheres) = Len(all_items)
    /\ pc = "vel" => /\ Len(Spheres) = Len(all_items) + 1
                     /\ Spheres[Len(Spheres)].location = location
                     /\ Spheres[Len(Spheres)].size = radius
    /\ \A i \in DOMAIN all_items :
            /\ Spheres[i].location = all_items[i].location
            /\ Spheres[i].size = all_items[i].radius
    /\ pc \in {"render", "frame", "write", "done"} =>
            Len(Spheres) = sim.sphere_count

\* a finished placement of two spheres with as many rejected candidates as
\* the count records
C10_Witness ==
    /\ pc = "render"
    /\ rejected = MaxRejected
    /\ Len(Spheres) = 2
    /\ Len(all_items) = 2

\* the location keyframed at frame n (1 or 2) for the i-th sphere
KeyedLocation(i, n) == LocationKeys(Spheres[i])[n].value

\* the spheres whose keyframes have been inserted
Keyed == {i \in DOMAIN Spheres : Len(LocationKeys(Spheres[i])) = 2}

(* C11, as stated: the frame-1 keyframed positions of every two placed      *)
(* spheres are at least the sum of their radii apart.                       *)
C11_FrameOneApart ==
    \A i, j \in Keyed :
        i < j => Dist2(KeyedLocation(i, 1), KeyedLocation(j, 1))
                    >= Sq(Spheres[i].size + Spheres[j].size)

(* C11, amended: the frame-2 keyframed positions of every two placed        *)
(* spheres are at least the sum of their radii apart; their frame-1         *)
(* positions are as far apart as their frame-2 positions, and so do not     *)
(* overlap either, when the two spheres drew the same initial velocity or   *)
(* time_step is 0.                                                          *)
C11_FrameTwoApart ==
    \A i, j \in Keyed :
        i < j =>
            /\ KeyedLocation(i, 2) = all_items[i].location
            /\ KeyedLocation(j, 2) = all_items[j].location
            /\ Dist2(KeyedLocation(i, 2), KeyedLocation(j, 2))
                    >= Sq(Spheres[i].size + Spheres[j].size)
            /\ (vels[i] = vels[j] \/ time_step = 0) =>
                    /\ Dist2(KeyedLocation(i, 1), KeyedLocation(j, 1))
                            = Dist2(KeyedLocation(i, 2), KeyedLocation(j, 2))
                    /\ Dist2(KeyedLocation(i, 1), KeyedLocation(j, 1))
                            >= Sq(Spheres[i].size + Spheres[j].size)

\* two touching spheres that drew the same velocity: both were stepped back
\* by the same amount and still touch at frame 1
C11_Witness ==
    /\ pc = "render"
    /\ Keyed = {1, 2}
    /\ vels[1] = vels[2]
    /\ KeyedLocation(1, 1) # KeyedLocation(1, 2)
    /\ Dist2(KeyedLocation(1, 1), KeyedLocation(2, 1))
            = Sq(Spheres[1].size + Spheres[2].size)
====
